---- MODULE Spec2Model ----
(***************************************************************************)
(* Model of the authentication and ownership-scoped CRUD core of           *)
(* backend/server.js (express + mongoose + bcryptjs + jsonwebtoken).       *)
(*                                                                         *)
(* The store is the two mongoose collections (users, items).  A request    *)
(* is handled in the steps its awaits cut it into: a protected request is  *)
(* the middleware step (authenticateToken) followed by the handler step,   *)
(* a registration is the uniqueness lookup followed by hash/save/sign.     *)
(* Steps of different requests interleave freely.  The variable res holds  *)
(* the HTTP response sent by the step just taken (NoRes when that step     *)
(* sent none), so a state predicate over res speaks of the moment the      *)
(* response is written.                                                    *)
(*                                                                         *)
(* Time is counted in units of 12 hours: the '24h' of jwt.sign is 2 units. *)
(***************************************************************************)
EXTENDS Integers, Sequences, FiniteSets, TLC

VARIABLES
    users,       \* User collection: set of user documents
    items,       \* DataItem collection: set of item documents
    nextItemId,  \* number of DataItem documents created so far, plus one
    now,         \* the clock read by jwt.sign / jwt.verify
    tokens,      \* tokens held by clients (received in a 200/201 response)
    reqs,        \* in-flight requests, by slot: position and locals
    res,         \* response written by the step just taken
    authUser,    \* AuthProvider: useState user (NoUser for null)
    authToken,   \* AuthProvider: useState token (EmptyToken for null)
    localStorage,        \* localStorage item 'token'
    axiosAuthorization,  \* axios.defaults.headers.common['Authorization']
    effectToken, \* the token for which the [token] effect last ran
    dataItems,   \* Dashboard: useState dataItems
    inflight,    \* requests of the client that have not been answered to it
    did          \* the step of the client just taken

cvars == <<authUser, authToken, localStorage, axiosAuthorization, effectToken,
           dataItems, inflight, did>>

vars == <<users, items, nextItemId, now, tokens, reqs, res, cvars>>

---------------------------------------------------------------------------
(* Bounds of the model *)

MaxUsers == 2
MaxItems == 2
MaxTime == 3
MaxTokens == 2
MaxInFlight == 2

Slots == 1..MaxInFlight

(* Program constants *)

ExpiresIn == 2
MinPasswordLength == 6

---------------------------------------------------------------------------
(* Values a JSON body field can take.  Absent stands for every falsy value *)
(* (undefined, null, "", 0, false).                                        *)

Absent == "<absent>"
NumberValue == "<number>"
QueryObject == "<{$ne:null}>"

Names == {"John"}
Emails == {"a@x.com", "A@x.com", "b@x.com"}
Passwords == {"secret1", "secret2"}
ShortPasswords == {"short"}
Titles == {"t1", "t2", " "}
Descriptions == {"d1", "d2"}

NameInputs == Names \cup {Absent}
EmailInputs == Emails \cup {Absent, QueryObject}
PasswordInputs == Passwords \cup ShortPasswords \cup {Absent, NumberValue}
TitleInputs == Titles \cup {Absent}
DescriptionInputs == Descriptions \cup {Absent}

IsString(v) == v \notin {Absent, NumberValue, QueryObject}
Truthy(v) == v # Absent

LengthUnchecked(s) == 7

Length(s) == IF s \in ShortPasswords THEN 5 ELSE 7

(* String setters of the schemas: lowercase (email) and trim (title, name) *)
ToLowerCase(s) == IF s = "A@x.com" THEN "a@x.com" ELSE s
Trim(s) == IF s = " " THEN "" ELSE s

---------------------------------------------------------------------------
(* bcryptjs: hash(s, 12) and compare(s, hash).  The salt is not modelled;  *)
(* both reject when s is not a string.                                     *)

hashPlain(s) == s

hash(s) == "$2a$12$" \o s
compare(s, h) == h = hash(s)

(* jsonwebtoken: sign({userId}, JWT_SECRET, {expiresIn: '24h'}) and        *)
(* verify(token, JWT_SECRET).  A token is its payload and the key that     *)
(* signed it; form "garbage" is a string that is no three-part JWT.        *)

JWT_SECRET == "JWT_SECRET"
OtherKey == "attacker-key"

signLong(userId, t) ==
    [form |-> "jwt", userId |-> userId, iat |-> t, exp |-> t + 2 * ExpiresIn,
     sig |-> JWT_SECRET]

sign(userId, t) ==
    [form |-> "jwt", userId |-> userId, iat |-> t, exp |-> t + ExpiresIn,
     sig |-> JWT_SECRET]

GarbageToken ==
    [form |-> "garbage", userId |-> 0, iat |-> 0, exp |-> 0, sig |-> OtherKey]
EmptyToken ==
    [form |-> "empty", userId |-> 0, iat |-> 0, exp |-> 0, sig |-> OtherKey]

verifyNoExp(token, t) ==
    IF token.form # "jwt" THEN "jwt malformed"
    ELSE IF token.sig # JWT_SECRET THEN "invalid signature"
    ELSE "ok"

verify(token, t) ==
    IF token.form # "jwt" THEN "jwt malformed"
    ELSE IF token.sig # JWT_SECRET THEN "invalid signature"
    ELSE IF t >= token.exp THEN "jwt expired"
    ELSE "ok"

(* The Authorization header of a request *)
NoHeader == [scheme |-> "none", token |-> EmptyToken]
Header(scheme, token) == [scheme |-> scheme, token |-> token]

(* an identity that was removed from the store behind the API's back: its  *)
(* id is never given to a new document                                     *)
DeletedUserId == MaxUsers + 1

StaleToken == sign(DeletedUserId, 0)

ForgedTokens ==
    {[form |-> "jwt", userId |-> u, iat |-> now, exp |-> now + ExpiresIn,
      sig |-> OtherKey] : u \in 1..MaxUsers}

Headers ==
    {NoHeader, Header("Bearer", EmptyToken), Header("Bearer", GarbageToken)}
    \cup {Header("Basic", GarbageToken)}
    \cup {Header("Bearer", t) : t \in tokens \cup ForgedTokens \cup {StaleToken}}

---------------------------------------------------------------------------
(* Documents and queries of the two collections *)

NoUser == [_id |-> 0, name |-> "", email |-> "", role |-> ""]

(* .select('-password') and the {id, name, email, role} summary of the     *)
(* register, login and /me responses                                       *)
Summary(u) == [_id |-> u._id, name |-> u.name, email |-> u.email, role |-> u.role]

(* the document with the least _id of a non-empty set (natural order)      *)
First(docs) == CHOOSE d \in docs : \A e \in docs : d._id <= e._id

(* User.findOne({ email }): the filter is cast by the schema (lowercase    *)
(* setter) when it is a string, and is a query operator when an object     *)
findOneByEmailNone(email) == {}

findOneByEmailExact(email) ==
    IF email = QueryObject THEN users
    ELSE {u \in users : u.email = email}

findOneByEmail(email) ==
    IF email = QueryObject THEN users
    ELSE {u \in users : u.email = ToLowerCase(email)}

(* User.findById(id) *)
findByIdAny(id) == users

findById(id) == {u \in users : u._id = id}

(* DataItem.find({ userId }).sort({ createdAt: -1 }) as a sequence *)
RECURSIVE SortDesc(_)
SortDesc(docs) ==
    IF docs = {} THEN <<>>
    ELSE LET d == CHOOSE x \in docs : \A y \in docs : x.createdAt >= y.createdAt
         IN  <<d>> \o SortDesc(docs \ {d})

findAll(userId) == SortDesc(items)

RECURSIVE SortAsc(_)
SortAsc(docs) ==
    IF docs = {} THEN <<>>
    ELSE LET d == CHOOSE x \in docs : \A y \in docs : x.createdAt <= y.createdAt
         IN  <<d>> \o SortAsc(docs \ {d})

findOldestFirst(userId) == SortAsc({i \in items : i.userId = userId})

find(userId) == SortDesc({i \in items : i.userId = userId})

(* the filter { _id: id, userId } of findOneAndUpdate / findOneAndDelete;  *)
(* id is the :id path parameter: a well-formed ObjectId or not             *)
IdParams ==
    {[hex |-> TRUE, n |-> k] : k \in 1..(MaxItems + 1)}
    \cup {[hex |-> FALSE, n |-> 0]}

findOneAnyOwner(id, userId) == {i \in items : i._id = id.n}

findOne(id, userId) == {i \in items : i._id = id.n /\ i.userId = userId}

---------------------------------------------------------------------------
(* Responses.  body is always a record: {error: msg} for the error         *)
(* responses.  op names the route, hdr the Authorization header the        *)
(* request carried, user the identity the middleware attached (NoUser if   *)
(* none), args the inputs the handler read, storeOk whether the store      *)
(* operation of the step succeeded.                                        *)

NoArgs == [none |-> TRUE]
NoRes ==
    [op |-> "none", status |-> 0, body |-> [none |-> TRUE], hdr |-> NoHeader,
     user |-> NoUser, args |-> NoArgs, storeOk |-> TRUE]

Response(op, status, body, hdr, user, args, storeOk) ==
    [op |-> op, status |-> status, body |-> body, hdr |-> hdr, user |-> user,
     args |-> args, storeOk |-> storeOk]

Error(msg) == [error |-> msg]

(* asyncHandler + global error handler: status 500, body {error: err.message} *)
StoreError == "MongoNetworkError: connection timed out"
CastError == "Cast to ObjectId failed for value at path _id"
TitleRequired == "DataItem validation failed: title: Path title is required."
EmailCast == "User validation failed: email: Cast to string failed"
DuplicateKey == "E11000 duplicate key error collection: users index: email_1"
IllegalArgumentsHash == "Illegal arguments: number, number"
IllegalArgumentsCompare == "Illegal arguments: number, string"

Idle == [pc |-> "idle"]

(* a client keeps a token it received while it has room for it *)
Keep(token) ==
    IF Cardinality(tokens) < MaxTokens THEN tokens \cup {token} ELSE tokens

---------------------------------------------------------------------------
(* Identity middleware: what authenticateToken decides for a request with  *)
(* Authorization header hdr.  next is TRUE when it calls next() with       *)
(* req.user = user; otherwise it answers status/body itself.  A throw of   *)
(* jwt.verify or of the store lookup (storeOk = FALSE) lands in the same   *)
(* catch.                                                                  *)

BearerToken(hdr) == IF hdr.scheme = "Bearer" THEN hdr.token ELSE EmptyToken

Denied(msg) == [next |-> FALSE, status |-> 401, body |-> Error(msg), user |-> NoUser]

AuthenticateLeaky(hdr, storeOk) ==
    LET token == BearerToken(hdr)
        found == findById(token.userId)
    IN  IF token = EmptyToken THEN Denied("Access token required")
        ELSE IF verify(token, now) = "jwt expired" THEN Denied("Token expired")
        ELSE IF verify(token, now) # "ok" THEN Denied("Invalid or expired token")
        ELSE IF ~storeOk THEN Denied("Invalid or expired token")
        ELSE IF found = {} THEN Denied("Invalid token")
        ELSE [next |-> TRUE, status |-> 0, body |-> [none |-> TRUE],
              user |-> Summary(First(found))]

AuthenticateForbidden(hdr, storeOk) ==
    LET token == BearerToken(hdr)
        found == findById(token.userId)
    IN  IF token = EmptyToken THEN Denied("Access token required")
        ELSE IF verify(token, now) # "ok"
          THEN [next |-> FALSE, status |-> 403,
                body |-> Error("Invalid or expired token"), user |-> NoUser]
        ELSE IF ~storeOk THEN Denied("Invalid or expired token")
        ELSE IF found = {} THEN Denied("Invalid token")
        ELSE [next |-> TRUE, status |-> 0, body |-> [none |-> TRUE],
              user |-> Summary(First(found))]

AuthenticateSession(hdr, storeOk) ==
    LET token == BearerToken(hdr)
        found == findById(token.userId)
    IN  IF token = EmptyToken THEN Denied("Access token required")
        ELSE IF verify(token, now) # "ok" THEN Denied("Invalid or expired token")
        ELSE IF token \notin tokens THEN Denied("Invalid or expired token")
        ELSE IF ~storeOk THEN Denied("Invalid or expired token")
        ELSE IF found = {} THEN Denied("Invalid token")
        ELSE [next |-> TRUE, status |-> 0, body |-> [none |-> TRUE],
              user |-> Summary(First(found))]

Authenticate(hdr, storeOk) ==
    LET token == BearerToken(hdr)
        found == findById(token.userId)
    IN  IF token = EmptyToken THEN Denied("Access token required")
        ELSE IF verify(token, now) # "ok" THEN Denied("Invalid or expired token")
        ELSE IF ~storeOk THEN Denied("Invalid or expired token")
        ELSE IF found = {} THEN Denied("Invalid token")
        ELSE [next |-> TRUE, status |-> 0, body |-> [none |-> TRUE],
              user |-> Summary(First(found))]

(* whether the step reads the store: no lookup is made for a token that    *)
(* is missing or fails verification                                        *)
LooksUp(hdr) == BearerToken(hdr) # EmptyToken /\ verify(BearerToken(hdr), now) = "ok"

authenticateToken(s, hdr, storeOk) ==
    /\ reqs[s].pc = "idle"
    /\ storeOk \/ LooksUp(hdr)
    /\ LET a == Authenticate(hdr, storeOk)
       IN  IF a.next
             THEN /\ reqs' = [reqs EXCEPT ![s] =
                        [pc |-> "authed", user |-> a.user, hdr |-> hdr]]
                  /\ res' = NoRes
             ELSE /\ res' = Response("authenticateToken", a.status, a.body, hdr,
                                     NoUser, NoArgs, storeOk)
                  /\ UNCHANGED reqs
    /\ UNCHANGED <<users, items, nextItemId, now, tokens>>

(* A handler behind the middleware runs for a request that passed it *)
Authed(s) == reqs[s].pc = "authed"

Reply(s, op, status, body, args, storeOk) ==
    /\ res' = Response(op, status, body, reqs[s].hdr, reqs[s].user, args, storeOk)
    /\ reqs' = [reqs EXCEPT ![s] = Idle]

(* GET /api/auth/me *)
GetMe(s) ==
    /\ Authed(s)
    /\ Reply(s, "GET /api/auth/me", 200, [user |-> reqs[s].user], NoArgs, TRUE)
    /\ UNCHANGED <<users, items, nextItemId, now, tokens>>

(* GET /api/data *)
GetData(s, storeOk) ==
    /\ Authed(s)
    /\ IF storeOk
         THEN Reply(s, "GET /api/data", 200, [items |-> find(reqs[s].user._id)],
                    NoArgs, TRUE)
         ELSE Reply(s, "GET /api/data", 500, Error(StoreError), NoArgs, FALSE)
    /\ UNCHANGED <<users, items, nextItemId, now, tokens>>

(* userId: req.user._id, the owner given to a new DataItem: the identity    *)
(* the middleware attached; the handler reads title and description from   *)
(* the body and nothing else                                               *)
OwnerFirstUser(s) == First(users)._id

Owner(s) == reqs[s].user._id

(* POST /api/data *)
PostData(s, title, description, storeOk) ==
    /\ Authed(s)
    /\ LET args == [title |-> title, description |-> description]
           item == [_id |-> nextItemId, title |-> Trim(title),
                    description |-> description, userId |-> Owner(s),
                    createdAt |-> nextItemId]
       IN  IF ~Truthy(title) \/ ~Truthy(description)
             THEN /\ storeOk
                  /\ Reply(s, "POST /api/data", 400,
                           Error("Title and description are required"), args, TRUE)
                  /\ UNCHANGED <<items, nextItemId>>
           ELSE IF item.title = ""
             THEN /\ storeOk
                  /\ Reply(s, "POST /api/data", 500, Error(TitleRequired), args, TRUE)
                  /\ UNCHANGED <<items, nextItemId>>
           ELSE IF ~storeOk
             THEN /\ Reply(s, "POST /api/data", 500, Error(StoreError), args, FALSE)
                  /\ UNCHANGED <<items, nextItemId>>
           ELSE /\ nextItemId <= MaxItems
                /\ items' = items \cup {item}
                /\ nextItemId' = nextItemId + 1
                /\ Reply(s, "POST /api/data", 201, item, args, TRUE)
    /\ UNCHANGED <<users, now, tokens>>

(* PUT /api/data/:id *)
PutData(s, id, title, description, storeOk) ==
    /\ Authed(s)
    /\ LET args == [id |-> id, title |-> title, description |-> description]
           match == findOne(id, reqs[s].user._id)
           old == First(match)
           item == [old EXCEPT !.title = Trim(title), !.description = description]
       IN  IF ~Truthy(title) \/ ~Truthy(description)
             THEN /\ storeOk
                  /\ Reply(s, "PUT /api/data/:id", 400,
                           Error("Title and description are required"), args, TRUE)
                  /\ UNCHANGED items
           ELSE IF ~id.hex
             THEN /\ storeOk
                  /\ Reply(s, "PUT /api/data/:id", 500, Error(CastError), args, TRUE)
                  /\ UNCHANGED items
           ELSE IF ~storeOk
             THEN /\ Reply(s, "PUT /api/data/:id", 500, Error(StoreError), args, FALSE)
                  /\ UNCHANGED items
           ELSE IF match = {}
             THEN /\ Reply(s, "PUT /api/data/:id", 404,
                           Error("Data item not found"), args, TRUE)
                  /\ UNCHANGED items
           ELSE /\ items' = (items \ {old}) \cup {item}
                /\ Reply(s, "PUT /api/data/:id", 200, item, args, TRUE)
    /\ UNCHANGED <<users, nextItemId, now, tokens>>

(* DELETE /api/data/:id *)
DeleteData(s, id, storeOk) ==
    /\ Authed(s)
    /\ LET args == [id |-> id]
           match == findOne(id, reqs[s].user._id)
       IN  IF ~id.hex
             THEN /\ storeOk
                  /\ Reply(s, "DELETE /api/data/:id", 500, Error(CastError), args, TRUE)
                  /\ UNCHANGED items
           ELSE IF ~storeOk
             THEN /\ Reply(s, "DELETE /api/data/:id", 500, Error(StoreError), args, FALSE)
                  /\ UNCHANGED items
           ELSE IF match = {}
             THEN /\ Reply(s, "DELETE /api/data/:id", 404,
                           Error("Data item not found"), args, TRUE)
                  /\ UNCHANGED items
           ELSE /\ items' = items \ match
                /\ Reply(s, "DELETE /api/data/:id", 200,
                         [message |-> "Data item deleted successfully"], args, TRUE)
    /\ UNCHANGED <<users, nextItemId, now, tokens>>

---------------------------------------------------------------------------
(* Responses of the routes without middleware carry no req.user *)
Answer(op, status, body, args, storeOk) ==
    res' = Response(op, status, body, NoHeader, NoUser, args, storeOk)

(* POST /api/auth/register, up to the await of User.findOne *)
RegisterFind(s, name, email, password, storeOk) ==
    /\ reqs[s].pc = "idle"
    /\ LET args == [name |-> name, email |-> email, password |-> password]
       IN  IF ~Truthy(name) \/ ~Truthy(email) \/ ~Truthy(password)
             THEN /\ storeOk
                  /\ Answer("POST /api/auth/register", 400,
                            Error("All fields are required"), args, TRUE)
                  /\ UNCHANGED reqs
           ELSE IF IsString(password) /\ Length(password) < MinPasswordLength
             THEN /\ storeOk
                  /\ Answer("POST /api/auth/register", 400,
                            Error("Password must be at least 6 characters"), args, TRUE)
                  /\ UNCHANGED reqs
           ELSE IF ~storeOk
             THEN /\ Answer("POST /api/auth/register", 500, Error(StoreError), args, FALSE)
                  /\ UNCHANGED reqs
           ELSE IF findOneByEmail(email) # {}
             THEN /\ Answer("POST /api/auth/register", 400,
                            Error("User already exists"), args, TRUE)
                  /\ UNCHANGED reqs
           ELSE /\ Cardinality(users) < MaxUsers
                /\ reqs' = [reqs EXCEPT ![s] =
                      [pc |-> "save", name |-> name, email |-> email,
                       password |-> password]]
                /\ res' = NoRes
    /\ UNCHANGED <<users, items, nextItemId, now, tokens>>

(* the unique index on email (unique: true, autoIndex: true): an insert    *)
(* of a document whose email is already in the collection is refused       *)
NoUniqueIndex(email) == FALSE

DuplicateEmail(email) == \E u \in users : u.email = email

(* new User({ name, email, password: hashedPassword }): the document the   *)
(* schema makes of the three fields read from the body; role is not among  *)
(* them and takes the schema default                                       *)
NewUserAdmin(id, name, email, hashedPassword) ==
    [_id |-> id, name |-> Trim(name), email |-> ToLowerCase(email),
     password |-> hashedPassword, role |-> "admin"]

NewUser(id, name, email, hashedPassword) ==
    [_id |-> id, name |-> Trim(name), email |-> ToLowerCase(email),
     password |-> hashedPassword, role |-> "user"]

(* POST /api/auth/register, from bcrypt.hash to the response *)
RegisterSave(s, storeOk) ==
    /\ reqs[s].pc = "save"
    /\ LET r == reqs[s]
           args == [name |-> r.name, email |-> r.email, password |-> r.password]
           user == NewUser(Cardinality(users) + 1, r.name, r.email, hash(r.password))
           token == sign(user._id, now)
       IN  IF ~IsString(r.password)
             THEN /\ storeOk
                  /\ Answer("POST /api/auth/register", 500,
                            Error(IllegalArgumentsHash), args, TRUE)
                  /\ UNCHANGED <<users, tokens>>
           ELSE IF ~IsString(r.email)
             THEN /\ storeOk
                  /\ Answer("POST /api/auth/register", 500, Error(EmailCast), args, TRUE)
                  /\ UNCHANGED <<users, tokens>>
           ELSE IF ~storeOk
             THEN /\ Answer("POST /api/auth/register", 500, Error(StoreError), args, FALSE)
                  /\ UNCHANGED <<users, tokens>>
           ELSE IF DuplicateEmail(user.email)
             THEN /\ Answer("POST /api/auth/register", 500, Error(DuplicateKey), args, TRUE)
                  /\ UNCHANGED <<users, tokens>>
           ELSE /\ Cardinality(users) < MaxUsers
                /\ users' = users \cup {user}
                /\ tokens' = Keep(token)
                /\ Answer("POST /api/auth/register", 201,
                          [message |-> "User created successfully", token |-> token,
                           user |-> Summary(user)], args, TRUE)
    /\ reqs' = [reqs EXCEPT ![s] = Idle]
    /\ UNCHANGED <<items, nextItemId, now>>

(* POST /api/auth/login: status and body for a request body {email,        *)
(* password} in the current store                                          *)
login(email, password, storeOk) ==
    LET found == findOneByEmail(email)
        user == First(found)
    IN  IF ~Truthy(email) \/ ~Truthy(password)
          THEN [status |-> 400, body |-> Error("Email and password are required")]
        ELSE IF ~storeOk
          THEN [status |-> 500, body |-> Error(StoreError)]
        ELSE IF found = {}
          THEN [status |-> 400, body |-> Error("Invalid credentials")]
        ELSE IF ~IsString(password)
          THEN [status |-> 500, body |-> Error(IllegalArgumentsCompare)]
        ELSE IF ~compare(password, user.password)
          THEN [status |-> 400, body |-> Error("Invalid credentials")]
        ELSE [status |-> 200,
              body |-> [message |-> "Login successful",
                        token |-> sign(user._id, now), user |-> Summary(user)]]

(* The handler reads the store once (User.findOne) and never writes it, so *)
(* it is one step.                                                         *)
Login(email, password, storeOk) ==
    /\ storeOk \/ (Truthy(email) /\ Truthy(password))
    /\ LET r == login(email, password, storeOk)
       IN  /\ Answer("POST /api/auth/login", r.status, r.body,
                     [email |-> email, password |-> password], storeOk)
           /\ tokens' = IF r.status = 200 THEN Keep(r.body.token) ELSE tokens
    /\ UNCHANGED <<users, items, nextItemId, now, reqs>>

(* The client drops a token it holds (AuthProvider.logout) *)
logout(token) ==
    /\ token \in tokens
    /\ tokens' = tokens \ {token}
    /\ res' = NoRes
    /\ UNCHANGED <<users, items, nextItemId, now, reqs>>

(* The routing table: the method and path of every app.get/post/put/delete *)
Route(method, path) == [method |-> method, path |-> path]

Routes ==
    {Route("POST", "/api/auth/register"), Route("POST", "/api/auth/login"),
     Route("GET", "/api/auth/me"), Route("GET", "/api/data"),
     Route("POST", "/api/data"), Route("PUT", "/api/data/:id"),
     Route("DELETE", "/api/data/:id"), Route("GET", "/health")}

(* the endpoints the README lists under Authentication and Health Check    *)
ReadmeEndpoints ==
    {Route("POST", "/api/auth/register"), Route("POST", "/api/auth/login"),
     Route("POST", "/api/auth/logout"), Route("GET", "/api/auth/profile"),
     Route("PUT", "/api/auth/profile"), Route("GET", "/health"),
     Route("GET", "/api/health")}

(* GET /health *)
Health ==
    /\ Answer("GET /health", 200, [status |-> "OK", timestamp |-> now],
              Route("GET", "/health"), TRUE)
    /\ UNCHANGED <<users, items, nextItemId, now, tokens, reqs>>

(* A request that matches no route falls through every app.use and gets    *)
(* express's default 404 page, whatever its headers                        *)
Unmatched(e) ==
    /\ e \notin Routes
    /\ Answer("unmatched", 404, [html |-> "Cannot " \o e.method \o " " \o e.path],
              e, TRUE)
    /\ UNCHANGED <<users, items, nextItemId, now, tokens, reqs>>

(* Time passes *)
Tick ==
    /\ now < MaxTime
    /\ now' = now + 1
    /\ res' = NoRes
    /\ UNCHANGED <<users, items, nextItemId, tokens, reqs>>

---------------------------------------------------------------------------
(* The client before AuthProvider is mounted: nothing stored, no request   *)
NoStep == [kind |-> "none", token |-> EmptyToken]

NoClient ==
    /\ authUser = NoUser
    /\ authToken = EmptyToken
    /\ localStorage = EmptyToken
    /\ axiosAuthorization = EmptyToken
    /\ effectToken = EmptyToken
    /\ dataItems = <<>>
    /\ inflight = {}
    /\ did = NoStep

---------------------------------------------------------------------------
(* The client (AuthContext.js): AuthProvider and Dashboard, and the        *)
(* requests axios has sent for them.  A request is sent by a step of the   *)
(* client, served by the steps of the server's route, and its response is  *)
(* handed to the awaiting function by a later step of the client, so that  *)
(* responses reach the client in any order.                                *)

(* a step of the client leaves the server alone *)
ClientStep ==
    /\ res' = NoRes
    /\ UNCHANGED <<users, items, nextItemId, now, tokens, reqs>>

(* the Authorization header axios adds from its defaults *)
AxiosHeader ==
    IF axiosAuthorization = EmptyToken THEN NoHeader
    ELSE Header("Bearer", axiosAuthorization)

Request(kind, args, hdr) ==
    [kind |-> kind, args |-> args, hdr |-> hdr, phase |-> "sent", slot |-> 0,
     response |-> NoRes]

Send(kind, args, hdr) ==
    /\ Cardinality(inflight) < MaxInFlight
    /\ inflight' = inflight \cup {Request(kind, args, hdr)}

Step(kind, token) == [kind |-> kind, token |-> token]

(* React has run the [token] effect for the token of the last render *)
Rendered == effectToken = authToken

(* useEffect(..., [token]): sets the axios header and calls                *)
(* getCurrentUser(), which sends GET /api/auth/me                          *)
TokenEffect ==
    /\ ~Rendered
    /\ effectToken' = authToken
    /\ IF authToken # EmptyToken
         THEN /\ axiosAuthorization' = authToken
              /\ Send("me", NoArgs, Header("Bearer", authToken))
         ELSE UNCHANGED <<axiosAuthorization, inflight>>
    /\ did' = Step("effect", authToken)
    /\ UNCHANGED <<authUser, authToken, localStorage, dataItems>>
    /\ ClientStep

(* logout(): what the application calls and what getCurrentUser calls in   *)
(* its catch                                                               *)
ClearSession ==
    /\ localStorage' = EmptyToken
    /\ authToken' = EmptyToken
    /\ authUser' = NoUser
    /\ axiosAuthorization' = EmptyToken

AppLogout ==
    /\ Rendered
    /\ authToken # EmptyToken
    /\ ClearSession
    /\ did' = Step("logout", authToken)
    /\ UNCHANGED <<effectToken, dataItems, inflight>>
    /\ ClientStep

(* login(email, password) and register(name, email, password) up to their  *)
(* await                                                                   *)
CallLogin(email, password) ==
    /\ Rendered
    /\ Send("login", [email |-> email, password |-> password], AxiosHeader)
    /\ did' = Step("login", EmptyToken)
    /\ UNCHANGED <<authUser, authToken, localStorage, axiosAuthorization,
                   effectToken, dataItems>>
    /\ ClientStep

CallRegister(name, email, password) ==
    /\ Rendered
    /\ Send("register", [name |-> name, email |-> email, password |-> password],
            AxiosHeader)
    /\ did' = Step("register", EmptyToken)
    /\ UNCHANGED <<authUser, authToken, localStorage, axiosAuthorization,
                   effectToken, dataItems>>
    /\ ClientStep

(* the response r.response of request r reaches the function awaiting it   *)
Done(r) == r \in inflight /\ r.phase = "done"

(* getCurrentUser() after its await: setUser, or logout() in the catch *)
ReceiveMe(r) ==
    /\ Rendered
    /\ Done(r) /\ r.kind = "me"
    /\ inflight' = inflight \ {r}
    /\ IF r.response.status = 200
         THEN /\ authUser' = r.response.body.user
              /\ did' = Step("me ok", r.hdr.token)
              /\ UNCHANGED <<authToken, localStorage, axiosAuthorization>>
         ELSE /\ ClearSession
              /\ did' = Step("me failed", r.hdr.token)
    /\ UNCHANGED <<effectToken, dataItems>>
    /\ ClientStep

(* login() and register() after their await: store the token, setToken,    *)
(* setUser and set the axios header, or return {success: false}            *)
ReceiveSession(r) ==
    /\ Rendered
    /\ Done(r) /\ r.kind \in {"login", "register"}
    /\ inflight' = inflight \ {r}
    /\ IF r.response.status \in {200, 201}
         THEN /\ localStorage' = r.response.body.token
              /\ authToken' = r.response.body.token
              /\ authUser' = r.response.body.user
              /\ axiosAuthorization' = r.response.body.token
              /\ did' = Step("session", r.response.body.token)
         ELSE /\ did' = Step("refused", EmptyToken)
              /\ UNCHANGED <<authUser, authToken, localStorage, axiosAuthorization>>
    /\ UNCHANGED <<effectToken, dataItems>>
    /\ ClientStep

(* Dashboard: fetchDataItems, handleCreateItem, handleUpdateItem and       *)
(* handleDeleteItem up to their await; update and delete are offered for   *)
(* the items of the list                                                   *)
ListedIds == {[hex |-> TRUE, n |-> dataItems[k]._id] : k \in 1..Len(dataItems)}

CallData(kind, args) ==
    /\ Send(kind, args, AxiosHeader)
    /\ did' = Step(kind, axiosAuthorization)
    /\ UNCHANGED <<authUser, authToken, localStorage, axiosAuthorization,
                   effectToken, dataItems>>
    /\ ClientStep

handleCreateItem(itemData) == CallData("create", itemData)

handleUpdateItem(id, itemData) ==
    /\ id \in ListedIds
    /\ CallData("update", [id |-> id, title |-> itemData.title,
                           description |-> itemData.description])

handleDeleteItem(id) ==
    /\ id \in ListedIds
    /\ CallData("delete", [id |-> id])

(* prev.map((item) => (item._id === id ? response.data : item)) *)
Replace(list, id, item) ==
    [k \in 1..Len(list) |-> IF list[k]._id = id THEN item ELSE list[k]]

(* prev.filter((item) => item._id !== id) *)
RECURSIVE Remove(_, _)
Remove(list, id) ==
    IF list = <<>> THEN <<>>
    ELSE IF Head(list)._id = id THEN Remove(Tail(list), id)
    ELSE <<Head(list)>> \o Remove(Tail(list), id)

(* the four functions after their await: the setDataItems of the try, or   *)
(* nothing in the catch                                                    *)
ReceiveData(r) ==
    /\ Done(r) /\ r.kind \in {"list", "create", "update", "delete"}
    /\ inflight' = inflight \ {r}
    /\ dataItems' =
         IF r.response.status \notin {200, 201} THEN dataItems
         ELSE IF r.kind = "list" THEN r.response.body.items
         ELSE IF r.kind = "create" THEN <<r.response.body>> \o dataItems
         ELSE IF r.kind = "update"
           THEN Replace(dataItems, r.args.id.n, r.response.body)
         ELSE Remove(dataItems, r.args.id.n)
    /\ did' = Step("received", r.hdr.token)
    /\ UNCHANGED <<authUser, authToken, localStorage, axiosAuthorization,
                   effectToken>>
    /\ ClientStep

(* The server serves a request of the client: the steps of its route, the  *)
(* response written by a step being the request's response                 *)
ProtectedKinds == {"me", "list", "create", "update", "delete"}

Track(r, s) ==
    /\ inflight' = (inflight \ {r}) \cup
         {IF res'.op = "none"
            THEN [r EXCEPT !.phase = "serving", !.slot = s]
            ELSE [r EXCEPT !.phase = "done", !.slot = 0, !.response = res']}
    /\ did' = NoStep
    /\ UNCHANGED <<authUser, authToken, localStorage, axiosAuthorization,
                   effectToken, dataItems>>

Sent(r) == r \in inflight /\ r.phase = "sent"
Serving(r) == r \in inflight /\ r.phase = "serving"

ServeMiddleware(r, s) ==
    /\ Sent(r) /\ r.kind \in ProtectedKinds
    /\ authenticateToken(s, r.hdr, TRUE)
    /\ Track(r, s)

ServeHandler(r) ==
    /\ Serving(r) /\ r.kind \in ProtectedKinds
    /\ CASE r.kind = "me" -> GetMe(r.slot)
         [] r.kind = "list" -> GetData(r.slot, TRUE)
         [] r.kind = "create" ->
              PostData(r.slot, r.args.title, r.args.description, TRUE)
         [] r.kind = "update" ->
              PutData(r.slot, r.args.id, r.args.title, r.args.description, TRUE)
         [] r.kind = "delete" -> DeleteData(r.slot, r.args.id, TRUE)
    /\ Track(r, r.slot)

ServeLogin(r) ==
    /\ Sent(r) /\ r.kind = "login"
    /\ Login(r.args.email, r.args.password, TRUE)
    /\ Track(r, 0)

ServeRegisterFind(r, s) ==
    /\ Sent(r) /\ r.kind = "register"
    /\ RegisterFind(s, r.args.name, r.args.email, r.args.password, TRUE)
    /\ Track(r, s)

ServeRegisterSave(r) ==
    /\ Serving(r) /\ r.kind = "register"
    /\ RegisterSave(r.slot, TRUE)
    /\ Track(r, r.slot)

---------------------------------------------------------------------------
(* The whole API, from the empty store, with every input and with store    *)
(* operations that may fail                                                *)

Init ==
    /\ users = {}
    /\ items = {}
    /\ nextItemId = 1
    /\ now = 0
    /\ tokens = {}
    /\ reqs = [s \in Slots |-> Idle]
    /\ res = NoRes
    /\ NoClient

Next ==
    \/ \E s \in Slots, hdr \in Headers, storeOk \in BOOLEAN :
         authenticateToken(s, hdr, storeOk) /\ UNCHANGED cvars
    \/ \E s \in Slots : GetMe(s) /\ UNCHANGED cvars
    \/ \E s \in Slots, storeOk \in BOOLEAN : GetData(s, storeOk)
         /\ UNCHANGED cvars
    \/ \E s \in Slots, title \in TitleInputs, description \in DescriptionInputs,
          storeOk \in BOOLEAN : PostData(s, title, description, storeOk)
         /\ UNCHANGED cvars
    \/ \E s \in Slots, id \in IdParams, title \in TitleInputs,
          description \in DescriptionInputs, storeOk \in BOOLEAN :
         PutData(s, id, title, description, storeOk) /\ UNCHANGED cvars
    \/ \E s \in Slots, id \in IdParams, storeOk \in BOOLEAN : DeleteData(s, id, storeOk)
         /\ UNCHANGED cvars
    \/ \E s \in Slots, name \in NameInputs, email \in EmailInputs,
          password \in PasswordInputs, storeOk \in BOOLEAN :
         RegisterFind(s, name, email, password, storeOk) /\ UNCHANGED cvars
    \/ \E s \in Slots, storeOk \in BOOLEAN : RegisterSave(s, storeOk)
         /\ UNCHANGED cvars
    \/ \E email \in EmailInputs, password \in PasswordInputs, storeOk \in BOOLEAN :
         Login(email, password, storeOk) /\ UNCHANGED cvars
    \/ \E token \in tokens : logout(token) /\ UNCHANGED cvars
    \/ Health /\ UNCHANGED cvars
    \/ \E e \in ReadmeEndpoints : Unmatched(e) /\ UNCHANGED cvars
    \/ Tick /\ UNCHANGED cvars

Spec == Init /\ [][Next]_vars

---------------------------------------------------------------------------
(* The data routes with the store available, from a store in which         *)
(* identity 1 registered at time 0 and identity 2 at time ExpiresIn, when  *)
(* identity 1 logged in again: the clients hold the three tokens issued,   *)
(* of which the first has expired.                                         *)

Registered(id, email, password) ==
    [_id |-> id, name |-> "John", email |-> email, password |-> hash(password),
     role |-> "user"]

InitData ==
    /\ users = {Registered(1, "a@x.com", "secret1"), Registered(2, "b@x.com", "secret2")}
    /\ items = {}
    /\ nextItemId = 1
    /\ now = ExpiresIn
    /\ tokens = {sign(1, 0), sign(1, ExpiresIn), sign(2, ExpiresIn)}
    /\ reqs = [s \in Slots |-> Idle]
    /\ res = NoRes
    /\ NoClient

DataBodies ==
    {[title |-> "t1", description |-> "d1"], [title |-> "t2", description |-> "d2"],
     [title |-> Absent, description |-> "d1"], [title |-> "t1", description |-> Absent]}

NextData ==
    \/ \E s \in Slots, hdr \in Headers : authenticateToken(s, hdr, TRUE)
         /\ UNCHANGED cvars
    \/ \E s \in Slots : GetMe(s) /\ UNCHANGED cvars
    \/ \E s \in Slots : GetData(s, TRUE) /\ UNCHANGED cvars
    \/ \E s \in Slots, b \in DataBodies : PostData(s, b.title, b.description, TRUE)
         /\ UNCHANGED cvars
    \/ \E s \in Slots, id \in IdParams, b \in DataBodies :
         PutData(s, id, b.title, b.description, TRUE) /\ UNCHANGED cvars
    \/ \E s \in Slots, id \in IdParams : DeleteData(s, id, TRUE)
         /\ UNCHANGED cvars

SpecData == InitData /\ [][NextData]_vars

(* Registration and login with the store available, every body *)

NextAuth ==
    \/ \E s \in Slots, name \in NameInputs, email \in EmailInputs,
          password \in PasswordInputs : RegisterFind(s, name, email, password, TRUE)
         /\ UNCHANGED cvars
    \/ \E s \in Slots : RegisterSave(s, TRUE) /\ UNCHANGED cvars
    \/ \E email \in EmailInputs, password \in PasswordInputs :
         Login(email, password, TRUE) /\ UNCHANGED cvars

SpecAuth == Init /\ [][NextAuth]_vars

(* The life of a token: well-formed registrations and logins, the          *)
(* middleware with every header, and the clock.  Requests are served one   *)
(* at a time here; their interleavings are explored by SpecData.           *)

Credentials ==
    {[email |-> "a@x.com", password |-> "secret1"],
     [email |-> "b@x.com", password |-> "secret2"]}

NextToken ==
    \/ \E s \in 1..1, c \in Credentials :
         RegisterFind(s, "John", c.email, c.password, TRUE) /\ UNCHANGED cvars
    \/ \E s \in 1..1 : RegisterSave(s, TRUE) /\ UNCHANGED cvars
    \/ \E c \in Credentials : Login(c.email, c.password, TRUE)
         /\ UNCHANGED cvars
    \/ \E token \in tokens : logout(token) /\ UNCHANGED cvars
    \/ \E s \in 1..1, hdr \in Headers : authenticateToken(s, hdr, TRUE)
         /\ UNCHANGED cvars
    \/ \E s \in 1..1 : GetMe(s) /\ UNCHANGED cvars
    \/ Tick /\ UNCHANGED cvars

SpecToken == Init /\ [][NextToken]_vars

(* Concurrent registrations: requests for the same email, for the same     *)
(* email in another letter case and for another email interleave at the    *)
(* await between the lookup and the save, next to bodies that fail the     *)
(* validation and to logins.                                               *)

RaceBodies ==
    {[name |-> "John", email |-> "a@x.com", password |-> "secret1"],
     [name |-> "John", email |-> "A@x.com", password |-> "secret1"],
     [name |-> "John", email |-> "b@x.com", password |-> "secret2"],
     [name |-> Absent, email |-> "a@x.com", password |-> "secret1"],
     [name |-> "John", email |-> Absent, password |-> "secret1"],
     [name |-> "John", email |-> "a@x.com", password |-> Absent],
     [name |-> "John", email |-> "a@x.com", password |-> "short"],
     [name |-> "John", email |-> "b@x.com", password |-> "short"],
     [name |-> "John", email |-> "a@x.com", password |-> NumberValue],
     [name |-> "John", email |-> QueryObject, password |-> "secret1"]}

RaceLogins ==
    Credentials
    \cup {[email |-> "A@x.com", password |-> "secret1"],
          [email |-> "a@x.com", password |-> "secret2"]}

NextRegister ==
    \/ \E s \in Slots, b \in RaceBodies :
         RegisterFind(s, b.name, b.email, b.password, TRUE) /\ UNCHANGED cvars
    \/ \E s \in Slots : RegisterSave(s, TRUE) /\ UNCHANGED cvars
    \/ \E b \in RaceLogins : Login(b.email, b.password, TRUE)
         /\ UNCHANGED cvars

SpecRegister == Init /\ [][NextRegister]_vars

(* Every route, served one request at a time from the empty store, with    *)
(* store operations that may fail and with bodies that pass and that fail  *)
(* each check of the handlers.                                             *)

RegisterBodies ==
    {[name |-> "John", email |-> c.email, password |-> c.password] : c \in Credentials}
    \cup {[name |-> Absent, email |-> "a@x.com", password |-> "secret1"],
          [name |-> "John", email |-> "a@x.com", password |-> "short"],
          [name |-> "John", email |-> "b@x.com", password |-> NumberValue],
          [name |-> "John", email |-> QueryObject, password |-> "secret1"]}

LoginBodies ==
    Credentials
    \cup {[email |-> "a@x.com", password |-> "secret2"],
          [email |-> "a@x.com", password |-> NumberValue],
          [email |-> Absent, password |-> "secret1"]}

NextApi ==
    \/ \E s \in 1..1, b \in RegisterBodies, storeOk \in BOOLEAN :
         RegisterFind(s, b.name, b.email, b.password, storeOk)
         /\ UNCHANGED cvars
    \/ \E s \in 1..1, storeOk \in BOOLEAN : RegisterSave(s, storeOk)
         /\ UNCHANGED cvars
    \/ \E b \in LoginBodies, storeOk \in BOOLEAN : Login(b.email, b.password, storeOk)
         /\ UNCHANGED cvars
    \/ \E s \in 1..1, hdr \in Headers, storeOk \in BOOLEAN :
         authenticateToken(s, hdr, storeOk) /\ UNCHANGED cvars
    \/ \E s \in 1..1 : GetMe(s) /\ UNCHANGED cvars
    \/ \E s \in 1..1, storeOk \in BOOLEAN : GetData(s, storeOk)
         /\ UNCHANGED cvars
    \/ \E s \in 1..1, b \in DataBodies, storeOk \in BOOLEAN :
         PostData(s, b.title, b.description, storeOk) /\ UNCHANGED cvars
    \/ \E s \in 1..1, id \in IdParams, b \in DataBodies, storeOk \in BOOLEAN :
         PutData(s, id, b.title, b.description, storeOk) /\ UNCHANGED cvars
    \/ \E s \in 1..1, id \in IdParams, storeOk \in BOOLEAN : DeleteData(s, id, storeOk)
         /\ UNCHANGED cvars
    \/ Health /\ UNCHANGED cvars
    \/ \E e \in ReadmeEndpoints : Unmatched(e) /\ UNCHANGED cvars

SpecApi == Init /\ [][NextApi]_vars

(* Creation and update of Records with every title a body can carry,       *)
(* among them a title of whitespace only, by the two pre-registered        *)
(* identities.                                                             *)

NextTitles ==
    \/ \E s \in Slots, token \in tokens : authenticateToken(s, Header("Bearer", token), TRUE)
         /\ UNCHANGED cvars
    \/ \E s \in Slots, title \in TitleInputs, description \in DescriptionInputs :
         PostData(s, title, description, TRUE) /\ UNCHANGED cvars
    \/ \E s \in Slots, id \in IdParams, title \in TitleInputs,
          description \in DescriptionInputs : PutData(s, id, title, description, TRUE)
         /\ UNCHANGED cvars

SpecTitles == InitData /\ [][NextTitles]_vars

(* Listing, creation, update and deletion of Records by the holders of     *)
(* the three tokens, with bodies that carry a title and a description.     *)

RecordBodies == {b \in DataBodies : Truthy(b.title) /\ Truthy(b.description)}

NextOrder ==
    \/ \E s \in Slots, token \in tokens : authenticateToken(s, Header("Bearer", token), TRUE)
         /\ UNCHANGED cvars
    \/ \E s \in Slots : GetData(s, TRUE) /\ UNCHANGED cvars
    \/ \E s \in Slots, b \in RecordBodies : PostData(s, b.title, b.description, TRUE)
         /\ UNCHANGED cvars
    \/ \E s \in Slots, id \in IdParams, b \in RecordBodies :
         PutData(s, id, b.title, b.description, TRUE) /\ UNCHANGED cvars
    \/ \E s \in Slots, id \in IdParams : DeleteData(s, id, TRUE)
         /\ UNCHANGED cvars

SpecOrder == InitData /\ [][NextOrder]_vars

(* AuthProvider against the server.  Identity 1 is registered; the page    *)
(* is loaded at time ExpiresIn with the localStorage an earlier visit      *)
(* left: no token, the token of time 0 (expired by now) or a fresh token.  *)

StoredTokens == {EmptyToken, sign(1, 0), sign(1, ExpiresIn)}

InitSession ==
    /\ users = {Registered(1, "a@x.com", "secret1")}
    /\ items = {}
    /\ nextItemId = 1
    /\ now = ExpiresIn
    /\ tokens = {}
    /\ reqs = [s \in Slots |-> Idle]
    /\ res = NoRes
    /\ localStorage \in StoredTokens
    /\ authToken = localStorage
    /\ authUser = NoUser
    /\ axiosAuthorization = EmptyToken
    /\ effectToken = EmptyToken
    /\ dataItems = <<>>
    /\ inflight = {}
    /\ did = NoStep

SessionLogins == Credentials \cup {[email |-> "a@x.com", password |-> "secret2"]}

NextSession ==
    \/ TokenEffect
    \/ AppLogout
    \/ \E c \in SessionLogins : CallLogin(c.email, c.password)
    \/ \E c \in Credentials : CallRegister("John", c.email, c.password)
    \/ \E r \in inflight : ReceiveMe(r)
    \/ \E r \in inflight : ReceiveSession(r)
    \/ \E r \in inflight, s \in Slots : ServeMiddleware(r, s)
    \/ \E r \in inflight : ServeHandler(r)
    \/ \E r \in inflight : ServeLogin(r)
    \/ \E r \in inflight, s \in Slots : ServeRegisterFind(r, s)
    \/ \E r \in inflight : ServeRegisterSave(r)

SpecSession == InitSession /\ [][NextSession]_vars

(* Dashboard against the server.  Identity 1 is logged in and is the only  *)
(* writer of its Records; Dashboard has just been mounted, so that the     *)
(* fetchDataItems() of its mount effect is in flight.  While loading is    *)
(* true Dashboard renders the spinner only: the form and the list, and     *)
(* with them create, update and delete, are offered once the fetch has     *)
(* returned.                                                               *)

fetchDataItems == Request("list", NoArgs, Header("Bearer", sign(1, ExpiresIn)))

loading == \E r \in inflight : r.kind = "list"

InitDashboard ==
    /\ users = {Registered(1, "a@x.com", "secret1")}
    /\ items = {}
    /\ nextItemId = 1
    /\ now = ExpiresIn
    /\ tokens = {sign(1, ExpiresIn)}
    /\ reqs = [s \in Slots |-> Idle]
    /\ res = NoRes
    /\ localStorage = sign(1, ExpiresIn)
    /\ authToken = localStorage
    /\ authUser = Summary(Registered(1, "a@x.com", "secret1"))
    /\ axiosAuthorization = authToken
    /\ effectToken = authToken
    /\ dataItems = <<>>
    /\ inflight = {fetchDataItems}
    /\ did = NoStep

NextDashboard ==
    \/ \E b \in DataBodies : ~loading /\ handleCreateItem(b)
    \/ \E id \in ListedIds, b \in DataBodies : ~loading /\ handleUpdateItem(id, b)
    \/ \E id \in ListedIds : ~loading /\ handleDeleteItem(id)
    \/ \E r \in inflight : ReceiveData(r)
    \/ \E r \in inflight, s \in Slots : ServeMiddleware(r, s)
    \/ \E r \in inflight : ServeHandler(r)

SpecDashboard == InitDashboard /\ [][NextDashboard]_vars

---------------------------------------------------------------------------
(* Properties of the data routes (SpecData) *)

PutOp == "PUT /api/data/:id"
DeleteOp == "DELETE /api/data/:id"
ProtectedOps ==
    {"GET /api/auth/me", "GET /api/data", "POST /api/data", PutOp, DeleteOp}

(* the step just taken was the handler of the request in slot s, which the *)
(* middleware had passed with req.user = the user of the response          *)
HandlerStep(s) ==
    /\ reqs[s].pc = "authed"
    /\ reqs'[s] = Idle
    /\ res'.user = reqs[s].user
    /\ res'.hdr = reqs[s].hdr

(* C1: a Record's title, description or existence changes only in a step   *)
(* of PUT or DELETE /api/data/:id on that Record's id whose req.user,      *)
(* resolved by the middleware, is the Record's owner.                      *)
C1_OwnerOnlyMutation ==
    [][\A r \in items :
         r \notin items' =>
           /\ res'.op \in {PutOp, DeleteOp}
           /\ res'.status = 200
           /\ res'.args.id = [hex |-> TRUE, n |-> r._id]
           /\ res'.user._id = r.userId
           /\ \E s \in Slots : HandlerStep(s)
           /\ \E u \in users : Summary(u) = res'.user]_vars

(* an owner's update went through while a request of another identity was  *)
(* in flight, past the middleware                                          *)
C1_Witness ==
    /\ res.op = PutOp
    /\ res.status = 200
    /\ \E i \in items : i._id = res.args.id.n /\ i.title = "t2"
    /\ \E s \in Slots : reqs[s].pc = "authed" /\ reqs[s].user._id # res.user._id

NotFound(r) == r.status = 404 /\ r.body = Error("Data item not found")

(* C2: PUT (with non-empty title and description) and DELETE on the id of  *)
(* an existing Record, issued as an identity that is not its owner, answer *)
(* 404 with the body given for an id that matches no Record at all.        *)
C2_ForeignIs404 ==
    [][\A id \in IdParams :
         (/\ res'.op \in {PutOp, DeleteOp}
          /\ res'.args.id = id
          /\ id.hex
          /\ res'.op = PutOp => Truthy(res'.args.title) /\ Truthy(res'.args.description)
          /\ \/ \E r \in items : r._id = id.n /\ r.userId # res'.user._id
             \/ ~ \E r \in items : r._id = id.n)
         => NotFound(res') /\ items' = items]_vars

C2_Witness ==
    /\ res.op = DeleteOp
    /\ res.status = 404
    /\ \E r \in items : r._id = res.args.id.n /\ r.userId # res.user._id

(* C3: GET /api/data as identity A returns exactly the stored Records      *)
(* whose owner is A, each once and as stored, and none of another owner.   *)
C3_ListIsOwnRecords ==
    (res.op = "GET /api/data" /\ res.status = 200) =>
        LET list == res.body.items
            own == {i \in items : i.userId = res.user._id}
        IN  /\ {list[k] : k \in 1..Len(list)} = own
            /\ Len(list) = Cardinality(own)

C3_Witness ==
    /\ res.op = "GET /api/data"
    /\ Len(res.body.items) = 1
    /\ \E i \in items : i.userId # res.user._id

(* C4: a handler of a protected route runs only for a request whose header *)
(* is 'Bearer <token>' with a token signed by the server, unexpired, and   *)
(* whose subject is in the store when the middleware runs; every other     *)
(* request is answered 401 by the middleware, which leaves the store and   *)
(* the handler untouched.                                                  *)
ValidBearer(hdr) ==
    /\ hdr.scheme = "Bearer"
    /\ hdr.token.form = "jwt"
    /\ hdr.token.sig = JWT_SECRET
    /\ now < hdr.token.exp
    /\ \E u \in users : u._id = hdr.token.userId

VerifyFails(hdr) ==
    /\ hdr.scheme = "Bearer"
    /\ hdr.token # EmptyToken
    /\ verify(hdr.token, now) \in {"jwt malformed", "invalid signature", "jwt expired"}

C9_VerifyFailuresAlike ==
    (res.op = "authenticateToken" /\ VerifyFails(res.hdr)) =>
        /\ res.status = 401
        /\ \A hdr \in Headers :
             VerifyFails(hdr) =>
                /\ Authenticate(hdr, TRUE).status = res.status
                /\ Authenticate(hdr, TRUE).body = res.body

C9_Witness ==
    /\ res.op = "authenticateToken"
    /\ verify(res.hdr.token, now) = "jwt expired"
    /\ \E h1, h2 \in Headers :
         /\ verify(BearerToken(h1), now) = "invalid signature"
         /\ h2.scheme = "Bearer" /\ h2.token = GarbageToken

(* C10 as claimed: a missing token, an invalid token and an expired token  *)
(* get the same status and the same body.                                  *)
MissingInvalidOrExpired(hdr) == hdr = NoHeader \/ VerifyFails(hdr)

C10_SameResponse ==
    (res.op = "authenticateToken" /\ MissingInvalidOrExpired(res.hdr)) =>
        \A hdr \in Headers :
            MissingInvalidOrExpired(hdr) =>
                /\ Authenticate(hdr, TRUE).status = res.status
                /\ Authenticate(hdr, TRUE).body = res.body

(* C10 as amended: the three get status 401; an invalid and an expired     *)
(* token get the same body, a missing token a body of its own.             *)
C10_SameStatus ==
    (res.op = "authenticateToken" /\ MissingInvalidOrExpired(res.hdr)) =>
        /\ res.status = 401
        /\ \A hdr \in Headers :
             MissingInvalidOrExpired(hdr) =>
                /\ Authenticate(hdr, TRUE).status = 401
                /\ (Authenticate(hdr, TRUE).body = res.body)
                      <=> ((hdr = NoHeader) <=> (res.hdr = NoHeader))

C10_Witness ==
    /\ res.op = "authenticateToken"
    /\ res.hdr = NoHeader
    /\ res.body = Error("Access token required")

---------------------------------------------------------------------------
(* Properties of issued tokens (SpecToken) *)

RegisterOp == "POST /api/auth/register"
LoginOp == "POST /api/auth/login"

Issued(r) ==
    \/ r.op = RegisterOp /\ r.status = 201
    \/ r.op = LoginOp /\ r.status = 200

Bearer(token) == Header("Bearer", token)

(* C5: a token issued by register or login at time t is accepted by the    *)
(* middleware at every time before t + ExpiresIn (24 hours) and refused    *)
(* with 401 at every time after it, however often it was used before.      *)
C5_Lifetime ==
    /\ [](Issued(res) => res.body.token.iat = now)
    /\ [](\A token \in tokens :
            /\ now < token.iat + ExpiresIn =>
                 /\ Authenticate(Bearer(token), TRUE).next
                 /\ Authenticate(Bearer(token), TRUE).user._id = token.userId
            /\ now > token.iat + ExpiresIn =>
                 /\ ~Authenticate(Bearer(token), TRUE).next
                 /\ Authenticate(Bearer(token), TRUE).status = 401)
    /\ [][/\ \A s \in Slots :
               (reqs[s].pc = "idle" /\ reqs'[s].pc = "authed") =>
                   now < reqs'[s].hdr.token.iat + ExpiresIn
          /\ (res'.op = "authenticateToken" /\ res'.hdr.scheme = "Bearer"
                /\ res'.hdr.token \in tokens) =>
                   /\ res'.status = 401
                   /\ now >= res'.hdr.token.iat + ExpiresIn]_vars

(* a token the client still holds is refused after its expiry *)
C5_Witness ==
    /\ res.op = "authenticateToken"
    /\ res.status = 401
    /\ res.hdr.token \in tokens
    /\ now > res.hdr.token.iat + ExpiresIn

(* C6: the token of a 201 registration response, presented at once,        *)
(* passes the middleware as the identity that registration created (the    *)
(* id of the response's user) and as no other.                             *)
C6_RegisterTokenResolves ==
    (res.op = RegisterOp /\ res.status = 201) =>
        LET a == Authenticate(Bearer(res.body.token), TRUE)
            created == {u \in users : /\ u.email = ToLowerCase(res.args.email)
                                      /\ u.password = hash(res.args.password)
                                      /\ u._id = Cardinality(users)}
        IN  /\ a.next
            /\ a.user = res.body.user
            /\ Cardinality(created) = 1
            /\ \A u \in users : (u._id = a.user._id) <=> (u \in created)

C6_Witness ==
    /\ res.op = RegisterOp
    /\ res.status = 201
    /\ Cardinality(users) = 2
    /\ res.body.user._id = 2

---------------------------------------------------------------------------
(* Properties of login (SpecAuth) *)

(* the stored identity a request's email names, if any *)
IdentityOf(email) == {u \in users : IsString(email) /\ u.email = ToLowerCase(email)}

Verifies(password, u) == IsString(password) /\ u.password = hash(password)

(* C7 as claimed: login answers 200 with a token exactly when the email is *)
(* that of a stored identity X and the password verifies against X's hash, *)
(* the token and the summary then being X's; otherwise 400 and no token.   *)
C7_LoginIff ==
    res.op = LoginOp =>
        LET X == IdentityOf(res.args.email)
            ok == \E u \in X : Verifies(res.args.password, u)
        IN  /\ ok => /\ res.status = 200
                     /\ \E u \in X : /\ res.body.token.userId = u._id
                                     /\ res.body.user = Summary(u)
            /\ ~ok => /\ res.status = 400
                      /\ "token" \notin DOMAIN res.body

(* C8 as claimed: two logins with non-empty email and password, one with   *)
(* an unregistered email and one with a registered email and a password    *)
(* that does not verify, get the same status and body.                     *)
Unregistered(a) ==
    /\ IsString(a.email) /\ Truthy(a.password)
    /\ IdentityOf(a.email) = {}

WrongPassword(a) ==
    /\ IsString(a.email) /\ Truthy(a.password)
    /\ IdentityOf(a.email) # {}
    /\ \A u \in IdentityOf(a.email) : ~Verifies(a.password, u)

C8_NoEnumeration ==
    (res.op = LoginOp /\ WrongPassword(res.args)) =>
        \A email \in EmailInputs, password \in PasswordInputs :
            Unregistered([email |-> email, password |-> password]) =>
                /\ login(email, password, TRUE).status = res.status
                /\ login(email, password, TRUE).body = res.body

---------------------------------------------------------------------------
(* Properties of registration (SpecRegister) *)

(* the step just taken was the first step of a register request: it either *)
(* answered without reaching bcrypt.hash or left the request at the save   *)
RegisterAnswersAtOnce == res'.op = RegisterOp /\ reqs' = reqs

ValidName(name) == IsString(name) /\ Truthy(name)
ValidPassword(password) ==
    IsString(password) /\ Truthy(password) /\ Length(password) >= MinPasswordLength

(* C11: a register request with valid name and password whose email is     *)
(* that of an identity stored when the request arrives is answered 400     *)
(* without a token, never reaches the save, and leaves the store as it is. *)
C11_DuplicateRejected ==
    [][/\ (/\ RegisterAnswersAtOnce
           /\ ValidName(res'.args.name)
           /\ ValidPassword(res'.args.password)
           /\ IdentityOf(res'.args.email) # {})
          => /\ res'.status = 400
             /\ res'.body = Error("User already exists")
             /\ users' = users
             /\ tokens' = tokens
       /\ \A s \in Slots :
            (reqs[s].pc = "idle" /\ reqs'[s].pc = "save") =>
                IdentityOf(reqs'[s].email) = {}]_vars

(* the duplicate was rejected while another registration was at its save   *)
C11_Witness ==
    /\ res.op = RegisterOp
    /\ res.status = 400
    /\ res.body = Error("User already exists")
    /\ ValidPassword(res.args.password)
    /\ \E u \in users : u.email = res.args.email
    /\ \E s \in Slots : reqs[s].pc = "save"

(* C12: no two stored identities have the same email, also when two        *)
(* register requests for one email both pass the lookup before either      *)
(* saves.                                                                  *)
C12_EmailUnique ==
    \A u \in users : \A v \in users : u.email = v.email => u = v

(* one of two racing registrations has saved, the other is at its save     *)
C12_Witness ==
    /\ res.op = RegisterOp
    /\ res.status = 201
    /\ \E s \in Slots : /\ reqs[s].pc = "save"
                        /\ IsString(reqs[s].email)
                        /\ ToLowerCase(reqs[s].email) = res.body.user.email

(* C13 as claimed: a valid register request that is refused because its    *)
(* email is taken is answered 400, also when the duplicate is found only   *)
(* by the save; of two racing requests one gets 201 and the other 400.     *)
C13_TakenEmailIs400 ==
    (/\ res.op = RegisterOp
     /\ ValidName(res.args.name)
     /\ ValidPassword(res.args.password)
     /\ IdentityOf(res.args.email) # {}
     /\ res.status # 201)
    => res.status = 400

(* email e differs only in letter case from an email E whose registration  *)
(* created the stored identity u                                           *)
DiffersOnlyInCase(e, E) == e # E /\ ToLowerCase(e) = ToLowerCase(E)

CaseVariantOf(e, u) ==
    /\ IsString(e)
    /\ \E E \in Emails : DiffersOnlyInCase(e, E) /\ ToLowerCase(E) = u.email

(* C14: once an identity is registered with email E, a register request    *)
(* with an email differing from E only in letter case is rejected as       *)
(* already registered, and a login with such an email and the identity's   *)
(* password succeeds as that identity.                                     *)
C14_CaseInsensitiveEmail ==
    /\ [](\A u \in users :
            (/\ res.op = LoginOp
             /\ CaseVariantOf(res.args.email, u)
             /\ Verifies(res.args.password, u))
            => /\ res.status = 200
               /\ res.body.user = Summary(u)
               /\ res.body.token.userId = u._id)
    /\ [][/\ \A u \in users :
               (/\ RegisterAnswersAtOnce
                /\ ValidName(res'.args.name)
                /\ ValidPassword(res'.args.password)
                /\ CaseVariantOf(res'.args.email, u))
               => /\ res'.status = 400
                  /\ res'.body = Error("User already exists")
                  /\ users' = users
          /\ \A s \in Slots : \A u \in users :
               (reqs[s].pc = "idle" /\ reqs'[s].pc = "save") =>
                   ~CaseVariantOf(reqs'[s].email, u)]_vars

(* a login with the email in another letter case than the stored one       *)
C14_Witness ==
    /\ res.op = LoginOp
    /\ res.status = 200
    /\ res.args.email # res.body.user.email
    /\ \E u \in users : CaseVariantOf(res.args.email, u) /\ Summary(u) = res.body.user

(* a register body that fails the presence or the length validation, and   *)
(* the 400 body the validation gives it, which depends on the body alone   *)
MissingField(a) == a.name = Absent \/ a.email = Absent \/ a.password = Absent

Invalid(a) == MissingField(a) \/ a.password \in ShortPasswords

ValidationError(a) ==
    IF MissingField(a) THEN Error("All fields are required")
    ELSE Error("Password must be at least 6 characters")

(* C15: a register request in which name, email or password is absent or   *)
(* empty, or the password is shorter than 6 characters, is answered 400    *)
(* with the validation message, whatever the store holds; it creates no    *)
(* identity, issues no token and never reaches the lookup or the save.     *)
C15_RegisterValidation ==
    [][/\ (res'.op = RegisterOp /\ Invalid(res'.args))
          => /\ res'.status = 400
             /\ res'.body = ValidationError(res'.args)
             /\ UNCHANGED <<users, tokens, reqs>>
       /\ \A s \in Slots :
            (reqs[s].pc = "idle" /\ reqs'[s].pc = "save") =>
                ~Invalid([name |-> reqs'[s].name, email |-> reqs'[s].email,
                          password |-> reqs'[s].password])]_vars

(* a short password was refused for an email that is registered *)
C15_Witness ==
    /\ res.op = RegisterOp
    /\ res.status = 400
    /\ res.args.password \in ShortPasswords
    /\ res.body = Error("Password must be at least 6 characters")
    /\ IdentityOf(res.args.email) # {}

---------------------------------------------------------------------------
(* Properties of every route (SpecApi) *)

(* the strings a response body carries, field by field *)
UserStrings(u) == {u[f] : f \in DOMAIN u \ {"_id"}}
ItemStrings(i) == {i.title, i.description}

BodyStrings(body) ==
    (IF "error" \in DOMAIN body THEN {body.error} ELSE {})
    \cup (IF "message" \in DOMAIN body THEN {body.message} ELSE {})
    \cup (IF "user" \in DOMAIN body THEN UserStrings(body.user) ELSE {})
    \cup (IF "title" \in DOMAIN body THEN ItemStrings(body) ELSE {})
    \cup (IF "items" \in DOMAIN body
            THEN UNION {ItemStrings(body.items[k]) : k \in 1..Len(body.items)}
            ELSE {})

BodyFields(body) ==
    DOMAIN body
    \cup (IF "user" \in DOMAIN body THEN DOMAIN body.user ELSE {})
    \cup (IF "items" \in DOMAIN body
            THEN UNION {DOMAIN body.items[k] : k \in 1..Len(body.items)}
            ELSE {})

Plaintexts == Passwords \cup ShortPasswords

(* C16: the password stored for an identity is the hash of a registered    *)
(* password and never a plaintext, and no response of any route carries a  *)
(* password field, a stored hash or a plaintext password.                  *)
C16_PasswordNeverExposed ==
    /\ \A u \in users :
         /\ u.password \notin Plaintexts
         /\ \E p \in Passwords : compare(p, u.password)
    /\ "password" \notin BodyFields(res.body)
    /\ BodyStrings(res.body) \cap (Plaintexts \cup {u.password : u \in users}) = {}

(* the user summary of /api/auth/me, read from the stored document *)
C16_Witness ==
    /\ res.op = "GET /api/auth/me"
    /\ res.status = 200
    /\ \E u \in users : res.body.user = Summary(u) /\ compare("secret1", u.password)

(* the messages the handlers and the middleware write themselves, and the  *)
(* fallback of the global error handler                                    *)
GenericMessages ==
    {"Access token required", "Invalid token", "Invalid or expired token",
     "All fields are required", "Password must be at least 6 characters",
     "User already exists", "Email and password are required",
     "Invalid credentials", "Title and description are required",
     "Data item not found", "Server error"}

(* C17 as claimed: every error response has the body {error: m} with m one *)
(* of the fixed generic messages; a 500 never carries the text of the      *)
(* exception that was thrown.                                              *)
C17_GenericErrors ==
    res.status >= 400 =>
        /\ DOMAIN res.body = {"error"}
        /\ res.body.error \in GenericMessages

(* C18 as claimed: a request during which a store operation fails (in a    *)
(* handler or in the identity lookup of the middleware) is answered 500,   *)
(* never 401 or 400.                                                       *)
C18_StoreFailureIs500 ==
    (res.op # "none" /\ ~res.storeOk) => res.status = 500

(* C19: the set of stored identities only grows, a stored identity's id,   *)
(* name, email, password hash and role never change, ids are not reused,   *)
(* and every identity has role 'user'.                                     *)
C19_IdentitiesImmutable ==
    /\ [](\A u \in users : u.role = "user")
    /\ [][/\ \A u \in users : u \in users'
          /\ \A u \in users' : \A v \in users' : u._id = v._id => u = v]_vars

(* both identities are still stored after a Record of one was deleted      *)
C19_Witness ==
    /\ Cardinality(users) = 2
    /\ res.op = DeleteOp
    /\ res.status = 200

---------------------------------------------------------------------------
(* Properties of the :id parameter (SpecData) *)

(* C20 as claimed: for every value of :id, well-formed or not, PUT answers *)
(* only 200, 400 or 404 and DELETE only 200 or 404, and an id that matches *)
(* no Record of the caller yields 404.                                     *)
C20_IdStatuses ==
    /\ res.op = PutOp => res.status \in {200, 400, 404}
    /\ res.op = DeleteOp => res.status \in {200, 404}
    /\ (res.op \in {PutOp, DeleteOp} /\ ~res.args.id.hex /\ res.status # 400)
          => res.status = 404

---------------------------------------------------------------------------
(* Properties of stored Records (SpecData) *)

PostOp == "POST /api/data"

(* C21: a stored Record has one owner, a stored identity; it is the        *)
(* identity the middleware resolved for the POST /api/data request that    *)
(* created the Record, and no later step changes it.                       *)
C21_OwnerIsCreator ==
    /\ [](\A r \in items :
            /\ \A q \in items : r._id = q._id => r = q
            /\ \E u \in users : u._id = r.userId)
    /\ [][\A q \in items' :
            \/ \E r \in items : r._id = q._id /\ r.userId = q.userId
            \/ /\ res'.op = PostOp
               /\ res'.status = 201
               /\ res'.body = q
               /\ q.userId = res'.user._id
               /\ \E s \in Slots : HandlerStep(s)]_vars

(* a Record was updated by its owner while the other identity owns one too *)
C21_Witness ==
    /\ res.op = PutOp
    /\ res.status = 200
    /\ res.body.userId = res.user._id
    /\ \E r \in items : r.userId # res.user._id

(* the ids of a list of Records, in the order of the list *)
Ids(list) == [k \in 1..Len(list) |-> list[k]._id]

(* C22: GET /api/data lists the caller's Records most recently created     *)
(* first, and an update of a Record leaves every Record at its position.   *)
C22_NewestFirst ==
    /\ []((res.op = "GET /api/data" /\ res.status = 200) =>
            LET list == res.body.items
            IN  /\ list = find(res.user._id)
                /\ \A j \in 1..Len(list) : \A k \in 1..Len(list) :
                     j < k => /\ list[j].createdAt > list[k].createdAt
                              /\ list[j]._id > list[k]._id)
    /\ [][(res'.op = PutOp) =>
            /\ \A r \in items : \A q \in items' :
                 r._id = q._id => q.createdAt = r.createdAt
            /\ \A u \in users : Ids(find(u._id)') = Ids(find(u._id))]_vars

(* the older of the caller's two Records was just updated and is still     *)
(* the second of the list                                                  *)
C22_Witness ==
    /\ res.op = PutOp
    /\ res.status = 200
    /\ Len(find(res.user._id)) = 2
    /\ find(res.user._id)[2] = res.body
    /\ res.body.title = "t2"

---------------------------------------------------------------------------
(* Properties of token acceptance (SpecToken) *)

(* every token the server can have signed, held by a client or not, and    *)
(* the tokens it has not signed                                            *)
SignedTokens == {sign(u, t) : u \in 1..(MaxUsers + 1), t \in 0..MaxTime}

AnyToken == SignedTokens \cup ForgedTokens \cup {GarbageToken}

Accepts(token) == Authenticate(Bearer(token), TRUE).next

(* C23: whether the middleware accepts a token depends on its signature,   *)
(* its expiry and the existence of its subject only: all unexpired tokens  *)
(* of an identity are accepted side by side, a token the client dropped at *)
(* logout included, and no request changes the answer for any token.       *)
C23_Stateless ==
    /\ [](\A token \in AnyToken :
            Accepts(token) <=>
                /\ token.form = "jwt"
                /\ token.sig = JWT_SECRET
                /\ now < token.exp
                /\ \E u \in users : u._id = token.userId)
    /\ [][(now' = now /\ users' = users) =>
            \A token \in AnyToken : Accepts(token)' = Accepts(token)]_vars

(* the token of the registration at time 0 is accepted after the client    *)
(* dropped it, next to no other token                                      *)
C23_Witness ==
    /\ now = 0
    /\ tokens = {}
    /\ Cardinality(users) = 1
    /\ Accepts(sign(1, 0))

---------------------------------------------------------------------------
(* Properties of the routing table (SpecApi) *)

(* C24 as claimed: every endpoint the README lists is routed to a handler; *)
(* no request to one of them is left unmatched.                            *)
C24_ReadmeEndpointsRouted ==
    res.op = "unmatched" => res.args \notin ReadmeEndpoints

---------------------------------------------------------------------------
(* Properties of stored titles (SpecTitles) *)

(* C25 as claimed: after any POST /api/data and PUT /api/data/:id requests *)
(* every stored Record has a non-empty title (as trimmed by the schema)    *)
(* and a non-empty description.                                            *)
C25_TitlesNonEmpty ==
    \A r \in items :
        /\ r.title # "" /\ r.title # Absent
        /\ r.description # "" /\ r.description # Absent

---------------------------------------------------------------------------
(* Properties of the client session (SpecSession) *)

(* C26 as claimed: the session of the client (token in state and in        *)
(* localStorage, axios header, user) is cleared only by a logout() call of *)
(* the application or by the failure of a /api/auth/me request that was    *)
(* sent with the token of that session; the late failure of a request      *)
(* sent with an older token leaves it alone.                               *)
C26_SessionClearedOnlyBy ==
    [][(authToken # EmptyToken /\ authToken' = EmptyToken) =>
          \/ did'.kind = "logout"
          \/ did'.kind = "me failed" /\ did'.token = authToken]_vars

(* C27 as claimed: whenever isAuthenticated is true and no request is in   *)
(* flight, user is the identity the state token was issued for, and        *)
(* localStorage and the axios header hold that token.                      *)
isAuthenticated == authUser # NoUser /\ authToken # EmptyToken

C27_SessionConsistent ==
    (isAuthenticated /\ inflight = {} /\ Rendered) =>
        /\ authUser._id = authToken.userId
        /\ localStorage = authToken
        /\ axiosAuthorization = authToken

---------------------------------------------------------------------------
(* Properties of the Dashboard list (SpecDashboard) *)

(* C28: when none of the Dashboard's requests is in flight, its dataItems  *)
(* is, in content and order, the list GET /api/data returns for its user,  *)
(* in whatever order the responses of overlapping requests arrived         *)
C28_ListMatchesServer ==
    inflight = {} => dataItems = find(authUser._id)

====
